---------------------------- MODULE Spec2Model ----------------------------
(***************************************************************************)
(* Optimization action pipeline of GoogleAdsAutomation-Backend:            *)
(* anomaly detection (agents/monitor.py), AI proposal with bounded retry   *)
(* (agents/analyzer.py), the approval endpoints (api/routes/actions.py,    *)
(* api/routes/optimizations.py) and execution with audit logging           *)
(* (agents/executor.py).                                                   *)
(*                                                                         *)
(* The persistent store is the four tables of database/models.py, read and *)
(* written as the statements of the handlers say; the session mechanics of *)
(* the object-relational layer (expiry, detachment, schema drift) are      *)
(* outside the model.  Every handler is one atomic step.                   *)
(***************************************************************************)
EXTENDS Integers, Sequences, FiniteSets, TLC

VARIABLES
    proposed_actions,   \* table proposed_actions: row id = index
    action_logs,        \* table action_logs, append-only
    campaign_metrics,   \* latest campaign_metrics row per campaign (or NoMetric)
    alerts,             \* table alerts
    mutations,          \* Ad Platform mutate calls made so far (action ids)
    response,           \* what the last operation returned to its caller
    call                \* a pure computation under evaluation: argument and value

vars == <<proposed_actions, action_logs, campaign_metrics, alerts, mutations, response, call>>

(***************************************************************************)
(* Bounds of the model.                                                    *)
(***************************************************************************)
MaxActions == 2      \* rows in proposed_actions
NumCampaigns == 2    \* campaign ids 1..NumCampaigns
MaxAlerts == 2       \* rows in alerts
MaxLogs == 3         \* rows in action_logs

Campaigns == 1..NumCampaigns

(***************************************************************************)
(* Action types and target payloads.  A target is the set of its keys      *)
(* that hold a truthy value: the handlers test `not target.get(key)`.      *)
(***************************************************************************)
\* api/routes/optimizations.py:119 validates these before executing
ApplyValidatedTypes == {"INCREASE_BUDGET", "DECREASE_BUDGET", "CHANGE_BUDGET"}

\* the keys of action_handlers, executor.py:478-486
HandlerOf(action_type) ==
    CASE action_type = "PAUSE_AD" -> "execute_pause_ad"
      [] action_type = "PAUSE_KEYWORD" -> "execute_pause_keyword"
      [] action_type = "ADD_NEGATIVE_KEYWORD" -> "execute_add_negative_keyword"
      [] action_type = "REDUCE_BID" -> "execute_change_bid"
      [] action_type = "INCREASE_BID" -> "execute_change_bid"
      [] action_type = "INCREASE_BUDGET" -> "execute_change_budget"
      [] action_type = "DECREASE_BUDGET" -> "execute_change_budget"
      [] OTHER -> "none"

\* the target keys each handler requires to be truthy
RequiredFields(handler) ==
    CASE handler = "execute_pause_ad" -> {"ad_group_id", "ad_id"}
      [] handler = "execute_pause_keyword" -> {"ad_group_id", "criterion_id"}
      [] handler = "execute_add_negative_keyword" -> {"keywords"}
      [] handler = "execute_change_bid" -> {"ad_group_id", "criterion_id", "new_bid_micros"}
      [] handler = "execute_change_budget" -> {"new_budget_micros"}
      [] OTHER -> {}

SkipReason(handler) ==
    CASE handler = "execute_pause_ad" -> "Missing ad_group_id or ad_id in target"
      [] handler = "execute_pause_keyword" -> "Missing ad_group_id or criterion_id in target"
      [] handler = "execute_add_negative_keyword" -> "No keywords specified in target"
      [] handler = "execute_change_bid" -> "Missing bid parameters in target"
      [] handler = "execute_change_budget" -> "Missing new_budget_micros in target"
      [] OTHER -> ""

(***************************************************************************)
(* What the Ad Platform does with one handler's calls.  SUCCESS: the       *)
(* mutate call returned a result.  ADS_EXCEPTION: the mutate call raised   *)
(* GoogleAdsException.  EXCEPTION: building the operation raised before    *)
(* the mutate call.  BUDGET_NOT_FOUND: the budget lookup found no row      *)
(* (execute_change_budget only).                                           *)
(***************************************************************************)
PlatformOutcomes == {"SUCCESS", "ADS_EXCEPTION", "EXCEPTION", "BUDGET_NOT_FOUND"}

Result(status, error, reason, mutated) ==
    [status |-> status, error |-> error, reason |-> reason, mutated |-> mutated]

\* the part of every execute_* handler after its required-field check
HandlerCall(handler, platform) ==
    CASE platform = "SUCCESS" -> Result("SUCCESS", "", "", TRUE)
      [] platform = "ADS_EXCEPTION" -> Result("FAILED", "GoogleAdsException", "", TRUE)
      [] platform = "BUDGET_NOT_FOUND" /\ handler = "execute_change_budget" ->
            Result("FAILED", "Campaign budget not found", "", FALSE)
      [] OTHER -> Result("FAILED", "Exception", "", FALSE)

\* a handler that goes to the platform without looking at the target
HandlerUnchecked(handler, target, platform) ==
    HandlerCall(handler, platform)

\* execute_pause_ad, execute_pause_keyword, execute_add_negative_keyword,
\* execute_change_bid, execute_change_budget
Handler(handler, target, platform) ==
    IF ~(RequiredFields(handler) \subseteq target)
    THEN Result("SKIPPED", "", SkipReason(handler), FALSE)
    ELSE HandlerCall(handler, platform)

\* CampaignExecutor.execute_action
execute_action(action, platform) ==
    IF HandlerOf(action.action_type) = "none"
    THEN Result("NOT_IMPLEMENTED", "", "Action type not yet implemented", FALSE)
    ELSE Handler(HandlerOf(action.action_type), action.target, platform)

(***************************************************************************)
(* Rows.                                                                   *)
(***************************************************************************)
\* the ActionLog row both writers build
ActionLog(action_id, action, status, error_message) ==
    [action_id |-> action_id, campaign_id |-> action.campaign_id,
     action_type |-> action.action_type, status |-> status,
     error_message |-> error_message]

Response(op, arg, code, detail) ==
    [op |-> op, arg |-> arg, code |-> code, detail |-> detail,
     gen_calls |-> <<>>, actions |-> 0, results |-> <<>>]

ActionIds == 1..Len(proposed_actions)

SetStatus(id, status) ==
    [proposed_actions EXCEPT ![id].status = status]


(***************************************************************************)
(* Approval endpoints of api/routes/actions.py: one UPDATE ... WHERE id,   *)
(* whatever the row's current status.                                      *)
(***************************************************************************)
\* POST /actions/{action_id}/approve
approve_action(action_id) ==
    IF action_id \in ActionIds
    THEN /\ proposed_actions' = SetStatus(action_id, "APPROVED")
         /\ response' = Response("approve", action_id, 200, "Action approved and queued for execution")
    ELSE /\ proposed_actions' = proposed_actions
         /\ response' = Response("approve", action_id, 500, "Action not found")

\* POST /actions/{action_id}/reject
reject_action(action_id) ==
    IF action_id \in ActionIds
    THEN /\ proposed_actions' = SetStatus(action_id, "REJECTED")
         /\ response' = Response("reject", action_id, 200, "Action rejected")
    ELSE /\ proposed_actions' = proposed_actions
         /\ response' = Response("reject", action_id, 500, "Action not found")

Approve(action_id) ==
    /\ approve_action(action_id)
    /\ UNCHANGED <<action_logs, campaign_metrics, alerts, mutations, call>>

Reject(action_id) ==
    /\ reject_action(action_id)
    /\ UNCHANGED <<action_logs, campaign_metrics, alerts, mutations, call>>

(***************************************************************************)
(* Endpoints of api/routes/optimizations.py.                               *)
(***************************************************************************)
\* the guard shared by apply and dismiss: 404 when missing, 400 unless PENDING
Refusal(optimization_id) ==
    IF optimization_id \notin ActionIds THEN 404
    ELSE IF proposed_actions[optimization_id].status # "PENDING" THEN 400
    ELSE 0

RefusalDetail(code) ==
    IF code = 404 THEN "not found" ELSE "Optimization is not pending"

\* optimizations.py:110-114, the approval apply commits first
Approved(optimization_id) ==
    [proposed_actions EXCEPT ![optimization_id] =
        [@ EXCEPT !.status = "APPROVED", !.approved_at = TRUE,
                  !.approved_by = "user@dashboard"]]

\* optimizations.py:118-125
MissingBudgetField(action) ==
    /\ action.action_type \in ApplyValidatedTypes
    /\ "new_budget_micros" \notin action.target

\* optimizations.py:132-147, the SUCCESS branch
ApplySuccess(optimization_id, result) ==
    /\ proposed_actions' =
          [Approved(optimization_id) EXCEPT ![optimization_id] =
              [@ EXCEPT !.status = "APPLIED", !.executed_at = TRUE]]
    /\ action_logs' = Append(action_logs,
          ActionLog(optimization_id, proposed_actions[optimization_id], "SUCCESS", ""))
    /\ response' = Response("apply", optimization_id, 200, "Optimization applied successfully")

\* optimizations.py:158-185, the other outcomes: the 500 raised at 176 is caught
\* at 181, which sets FAILED once more
ApplyFailure(optimization_id, result) ==
    /\ proposed_actions' =
          [Approved(optimization_id) EXCEPT ![optimization_id].status = "FAILED"]
    /\ action_logs' = Append(action_logs,
          ActionLog(optimization_id, proposed_actions[optimization_id], "FAILED",
                    IF result.reason # "" THEN result.reason ELSE result.error))
    /\ response' = Response("apply", optimization_id, 500, "Failed to apply optimization")

\* optimizations.py:129 raising (CampaignExecutor.__init__ re-raises at
\* executor.py:39), caught at optimizations.py:181-185
ApplyExecutorError(optimization_id) ==
    /\ proposed_actions' =
          [Approved(optimization_id) EXCEPT ![optimization_id].status = "FAILED"]
    /\ action_logs' = action_logs
    /\ response' = Response("apply", optimization_id, 500, "Errore inizializzazione Google Ads client")

\* POST /{optimization_id}/apply.  client_ok: GoogleAdsClient.load_from_storage
\* succeeds; platform: what the Ad Platform does with the handler's calls.
apply_optimization(optimization_id, client_ok, platform) ==
    LET code == Refusal(optimization_id) IN
    IF code # 0
    THEN /\ response' = Response("apply", optimization_id, code, RefusalDetail(code))
         /\ UNCHANGED <<proposed_actions, action_logs, mutations, call>>
    ELSE LET action == proposed_actions[optimization_id]
             result == execute_action(action, platform)
         IN  IF MissingBudgetField(action)
             THEN /\ proposed_actions' = Approved(optimization_id)
                  /\ response' = Response("apply", optimization_id, 400,
                                          "Optimization missing required field")
                  /\ UNCHANGED <<action_logs, mutations>>
             ELSE IF ~client_ok
             THEN /\ ApplyExecutorError(optimization_id)
                  /\ UNCHANGED mutations
             ELSE /\ mutations' = IF result.mutated
                                  THEN Append(mutations, optimization_id)
                                  ELSE mutations
                  /\ IF result.status = "SUCCESS"
                     THEN ApplySuccess(optimization_id, result)
                     ELSE ApplyFailure(optimization_id, result)

Apply(optimization_id, client_ok, platform) ==
    /\ Len(action_logs) < MaxLogs
    /\ apply_optimization(optimization_id, client_ok, platform)
    /\ UNCHANGED <<campaign_metrics, alerts, call>>

\* POST /{optimization_id}/dismiss
dismiss_optimization(optimization_id) ==
    LET code == Refusal(optimization_id) IN
    IF code # 0
    THEN /\ response' = Response("dismiss", optimization_id, code, RefusalDetail(code))
         /\ UNCHANGED proposed_actions
    ELSE /\ proposed_actions' = SetStatus(optimization_id, "DISMISSED")
         /\ response' = Response("dismiss", optimization_id, 200, "Optimization dismissed")

Dismiss(optimization_id) ==
    /\ dismiss_optimization(optimization_id)
    /\ UNCHANGED <<action_logs, campaign_metrics, alerts, mutations, call>>


(***************************************************************************)
(* agents/executor.py: the batch executor.                                 *)
(***************************************************************************)
\* priority is a String column (models.py:188): ORDER BY priority DESC
\* compares the strings, 'MEDIUM' > 'LOW' > 'HIGH'
PriorityOrder(priority) ==
    CASE priority = "HIGH" -> 1
      [] priority = "LOW" -> 2
      [] priority = "MEDIUM" -> 3
      [] OTHER -> 0

\* row a is returned before row b by
\* order_by(priority.desc(), created_at.asc())
SortsBefore(a, b) ==
    \/ PriorityOrder(a.priority) > PriorityOrder(b.priority)
    \/ /\ PriorityOrder(a.priority) = PriorityOrder(b.priority)
       /\ a.created_at < b.created_at

\* the rows the query of get_pending_actions selects; campaign_id 0 is None
PendingIds(campaign_id) ==
    {id \in ActionIds :
        /\ proposed_actions[id].status = "APPROVED"
        /\ campaign_id # 0 => proposed_actions[id].campaign_id = campaign_id}

\* CampaignExecutor.get_pending_actions: every order the query may return
\* (rows equal in priority and created_at come in any order)
get_pending_actions(campaign_id) ==
    LET ids == PendingIds(campaign_id)
        n == Cardinality(ids)
    IN  {order \in [1..n -> ids] :
            /\ \A i, j \in 1..n : i # j => order[i] # order[j]
            /\ \A i, j \in 1..n :
                  i < j => ~SortsBefore(proposed_actions[order[j]],
                                        proposed_actions[order[i]])}

\* a save that updates the action and writes no log row
SaveWithoutLog(db, id, result) ==
    [db EXCEPT
        !.proposed_actions[id] =
            [@ EXCEPT !.status = IF result.status = "SUCCESS"
                                 THEN "EXECUTED" ELSE "FAILED",
                      !.executed_at = TRUE,
                      !.execution_error = result.error]]

\* CampaignExecutor.save_execution_log: the log row and the action's new fields
save_execution_log(db, id, result) ==
    [db EXCEPT
        !.action_logs = Append(@, ActionLog(id, db.proposed_actions[id],
                                            result.status, result.error)),
        !.proposed_actions[id] =
            [@ EXCEPT !.status = IF result.status = "SUCCESS"
                                 THEN "EXECUTED" ELSE "FAILED",
                      !.executed_at = TRUE,
                      !.execution_error = result.error]]

DryRunResult == Result("DRY_RUN", "", "", FALSE)

\* a pass that executes and logs whatever the mode
ExecuteOneForReal(db, id, platform, dry_run) ==
    LET result == execute_action(db.proposed_actions[id], platform)
        saved == save_execution_log(db, id, result)
    IN  [saved EXCEPT
            !.mutations = IF result.mutated THEN Append(@, id) ELSE @,
            !.results = Append(@, [action_id |-> id, status |-> result.status])]

\* one pass of the loop of execute_pending_actions, executor.py:586-619
ExecuteOne(db, id, platform, dry_run) ==
    LET result == IF dry_run THEN DryRunResult
                  ELSE execute_action(db.proposed_actions[id], platform)
        saved == IF dry_run THEN db ELSE save_execution_log(db, id, result)
    IN  [saved EXCEPT
            !.mutations = IF result.mutated THEN Append(@, id) ELSE @,
            !.results = Append(@, [action_id |-> id, status |-> result.status])]

\* a loop that gives up at the first action that fails
RECURSIVE ExecuteLoopUntilFailure(_, _, _, _, _)
ExecuteLoopUntilFailure(db, actions, i, platform, dry_run) ==
    IF i > Len(actions) THEN db
    ELSE LET next == ExecuteOne(db, actions[i], platform[actions[i]], dry_run)
         IN  IF next.results[Len(next.results)].status = "FAILED" THEN next
             ELSE ExecuteLoopUntilFailure(next, actions, i + 1, platform, dry_run)

RECURSIVE ExecuteLoop(_, _, _, _, _)
ExecuteLoop(db, actions, i, platform, dry_run) ==
    IF i > Len(actions) THEN db
    ELSE ExecuteLoop(ExecuteOne(db, actions[i], platform[actions[i]], dry_run),
                     actions, i + 1, platform, dry_run)

\* CampaignExecutor.execute_pending_actions.  actions: the loaded list;
\* platform: what the Ad Platform does for each action.
execute_pending_actions(campaign_id, dry_run, actions, platform) ==
    LET db == [proposed_actions |-> proposed_actions, action_logs |-> action_logs,
               mutations |-> mutations, results |-> <<>>]
        end == ExecuteLoop(db, actions, 1, platform, dry_run)
    IN  /\ proposed_actions' = end.proposed_actions
        /\ action_logs' = end.action_logs
        /\ mutations' = end.mutations
        /\ response' =
              [Response("execute_pending", campaign_id, 0,
                        IF actions = <<>> THEN "No pending actions"
                        ELSE IF dry_run THEN "DRY_RUN" ELSE "SUCCESS")
               EXCEPT !.results = end.results,
                      !.actions = Len(actions)]

ExecutePending(campaign_id, dry_run, Platform) ==
    /\ Len(action_logs) + Cardinality(PendingIds(campaign_id)) <= MaxLogs
    /\ \E actions \in get_pending_actions(campaign_id) :
       \E platform \in [PendingIds(campaign_id) -> Platform] :
           execute_pending_actions(campaign_id, dry_run, actions, platform)
    /\ UNCHANGED <<campaign_metrics, alerts, call>>


(***************************************************************************)
(* agents/monitor.py.  Metric values are in hundredths (ctr 1.0 is 100);   *)
(* None is Python's None.                                                  *)
(***************************************************************************)
None == -1

TARGET_CTR_MIN == 200
TARGET_CPC_MAX == 60
TARGET_ROAS_MIN == 150
TARGET_OPTIMIZATION_SCORE_MIN == 6000

Snapshot(campaign_id, status, ctr, cpc, roas, conversions, optimization_score, budget, cost) ==
    [campaign_id |-> campaign_id, status |-> status, ctr |-> ctr, cpc |-> cpc,
     roas |-> roas, conversions |-> conversions,
     optimization_score |-> optimization_score, budget |-> budget, cost |-> cost]

NoMetric == Snapshot(0, "", 0, 0, 0, 0, None, None, 0)

Alert(campaign_id, alert_type, severity) ==
    [campaign_id |-> campaign_id, alert_type |-> alert_type,
     severity |-> severity, resolved |-> FALSE]

\* a test that takes every value, None included, for set
TruthyAlways(x) == TRUE

\* Python truthiness of an optional number: neither None nor 0
Truthy(x) == x # None /\ x # 0

\* the five rules with a ROAS rule that does not look at the conversions
DetectRoasUnguarded(campaign) ==
    IF campaign.status = "PAUSED" THEN <<>>
    ELSE (IF campaign.ctr < TARGET_CTR_MIN
          THEN <<Alert(campaign.campaign_id, "LOW_CTR", "MEDIUM")>> ELSE <<>>)
      \o (IF campaign.cpc > TARGET_CPC_MAX
          THEN <<Alert(campaign.campaign_id, "HIGH_CPC", "MEDIUM")>> ELSE <<>>)
      \o (IF campaign.roas < TARGET_ROAS_MIN
          THEN <<Alert(campaign.campaign_id, "LOW_ROAS", "HIGH")>> ELSE <<>>)
      \o (IF /\ campaign.optimization_score # None /\ campaign.optimization_score # 0
             /\ campaign.optimization_score < TARGET_OPTIMIZATION_SCORE_MIN
          THEN <<Alert(campaign.campaign_id, "LOW_OPTIMIZATION_SCORE", "LOW")>> ELSE <<>>)
      \o (IF /\ campaign.budget # None /\ campaign.budget # 0
             /\ campaign.cost * 100 >= campaign.budget * 95
          THEN <<Alert(campaign.campaign_id, "BUDGET_EXHAUSTED", "HIGH")>> ELSE <<>>)

\* the five rules of detect_anomalies for one campaign, in the order of the code
DetectCampaign(campaign) ==
    IF campaign.status = "PAUSED" THEN <<>>
    ELSE (IF campaign.ctr < TARGET_CTR_MIN
          THEN <<Alert(campaign.campaign_id, "LOW_CTR", "MEDIUM")>> ELSE <<>>)
      \o (IF campaign.cpc > TARGET_CPC_MAX
          THEN <<Alert(campaign.campaign_id, "HIGH_CPC", "MEDIUM")>> ELSE <<>>)
      \o (IF campaign.conversions > 0 /\ campaign.roas < TARGET_ROAS_MIN
          THEN <<Alert(campaign.campaign_id, "LOW_ROAS", "HIGH")>> ELSE <<>>)
      \o (IF /\ Truthy(campaign.optimization_score)
             /\ campaign.optimization_score < TARGET_OPTIMIZATION_SCORE_MIN
          THEN <<Alert(campaign.campaign_id, "LOW_OPTIMIZATION_SCORE", "LOW")>> ELSE <<>>)
      \o (IF /\ Truthy(campaign.budget)
             /\ campaign.cost * 100 >= campaign.budget * 95
          THEN <<Alert(campaign.campaign_id, "BUDGET_EXHAUSTED", "HIGH")>> ELSE <<>>)

\* CampaignMonitor.detect_anomalies
RECURSIVE detect_anomalies(_)
detect_anomalies(campaigns) ==
    IF campaigns = <<>> THEN <<>>
    ELSE DetectCampaign(Head(campaigns)) \o detect_anomalies(Tail(campaigns))

\* CampaignMonitor.save_to_database: the latest row of each campaign
save_to_database(campaigns) ==
    [c \in Campaigns |->
        IF \E i \in 1..Len(campaigns) : campaigns[i].campaign_id = c
        THEN campaigns[CHOOSE i \in 1..Len(campaigns) :
                          /\ campaigns[i].campaign_id = c
                          /\ \A j \in 1..Len(campaigns) :
                                campaigns[j].campaign_id = c => j <= i]
        ELSE campaign_metrics[c]]

\* CampaignMonitor.run.  campaigns: what get_campaigns_metrics fetched.
run(campaigns) ==
    IF campaigns = <<>>
    THEN /\ response' = Response("monitor", 0, 0, "Nessuna campagna trovata")
         /\ UNCHANGED <<campaign_metrics, alerts>>
    ELSE /\ campaign_metrics' = save_to_database(campaigns)
         /\ alerts' = alerts \o detect_anomalies(campaigns)
         /\ response' = [Response("monitor", 0, 0, "SUCCESS")
                         EXCEPT !.results = detect_anomalies(campaigns)]

MonitorRun(campaigns) ==
    /\ Len(alerts) + Len(detect_anomalies(campaigns)) <= MaxAlerts
    /\ run(campaigns)
    /\ UNCHANGED <<proposed_actions, action_logs, mutations, call>>


(***************************************************************************)
(* agents/analyzer.py.  Confidence values are in ten-thousandths: the      *)
(* number 1 is One, 0.85 is 8500 and the model's "85" is 85 * One, so that *)
(* a two-decimal value divides by 100 without remainder.                   *)
(***************************************************************************)
One == 10000
max_retries == 3
DefaultConfidence == 50 * One

\* action_data.get('confidence', 50)
ConfidenceOf(action_data) ==
    IF action_data.confidence.kind = "missing" THEN DefaultConfidence
    ELSE action_data.confidence.value

\* a normalisation that also divides the value 1 itself
NormalizeFromOne(confidence) ==
    IF confidence >= One THEN confidence \div 100 ELSE confidence

\* analyzer.py:736-737
NormalizeConfidence(confidence) ==
    IF confidence > One THEN confidence \div 100 ELSE confidence

\* the ProposedAction row of analyzer.py:739-752
ProposedAction(campaign_id, action_data, created_at) ==
    [campaign_id |-> campaign_id,
     action_type |-> action_data.action_type,
     priority |-> action_data.priority,
     target |-> action_data.target,
     confidence |-> NormalizeConfidence(ConfidenceOf(action_data)),
     status |-> "PENDING",
     created_at |-> created_at,
     approved_at |-> FALSE, approved_by |-> "",
     executed_at |-> FALSE, execution_error |-> ""]

\* what makes the loop of save_proposed_actions raise: action_data['action_type']
\* on a missing key (KeyError), `confidence > 1` on null (TypeError)
SaveRaises(action_data) ==
    \/ action_data.action_type = ""
    \/ action_data.confidence.kind = "null"

SaveError(action_data) ==
    IF action_data.confidence.kind = "null" THEN "TypeError" ELSE "KeyError"

\* CampaignAnalyzer.save_proposed_actions: all rows in one transaction, rolled
\* back by get_db_session when the loop raises
save_proposed_actions(db_actions, campaign_id, actions) ==
    IF \E i \in 1..Len(actions) : SaveRaises(actions[i])
    THEN [ok |-> FALSE, rows |-> <<>>,
          error |-> SaveError(actions[CHOOSE i \in 1..Len(actions) :
                                 /\ SaveRaises(actions[i])
                                 /\ \A j \in 1..(i - 1) : ~SaveRaises(actions[j])])]
    ELSE [ok |-> TRUE, error |-> "",
          rows |-> [i \in 1..Len(actions) |->
                      ProposedAction(campaign_id, actions[i],
                                     Len(db_actions) + 1)]]

(***************************************************************************)
(* One generate call and the parse of its text.  GOOD: a JSON object with  *)
(* an actions key.  BAD_JSON: json.loads raises JSONDecodeError.           *)
(* NO_ACTIONS: a JSON object without the key.  SCALAR: valid JSON that is  *)
(* no container (a number, true, null), on which `'actions' not in data`   *)
(* raises TypeError.  PROVIDER_ERROR: generate raises an API error.        *)
(* PROVIDER_VALUE_ERROR: generate raises ValueError (the provider's text   *)
(* accessor on a response without content).                                *)
(***************************************************************************)
GenerateKinds == {"GOOD", "BAD_JSON", "NO_ACTIONS", "SCALAR",
                  "PROVIDER_ERROR", "PROVIDER_VALUE_ERROR"}

\* a parser whose failures are not ValueError, so that nothing is retried
AttemptErrorUnretried(kind) ==
    IF kind = "GOOD" THEN "" ELSE "Exception"

\* the exception class of one attempt, "" when none is raised before the save
AttemptError(kind) ==
    CASE kind = "BAD_JSON" -> "ValueError"
      [] kind = "NO_ACTIONS" -> "ValueError"
      [] kind = "PROVIDER_VALUE_ERROR" -> "ValueError"
      [] kind = "SCALAR" -> "TypeError"
      [] kind = "PROVIDER_ERROR" -> "Exception"
      [] OTHER -> ""

\* the service's answer to the i-th call: `failures` answers of kind `failing`,
\* then answers of kind `then`
Generate(service, i) ==
    IF i <= service.failures THEN service.failing ELSE service.then

\* the retry loop of analyze_campaign, analyzer.py:609-652; attempt counts from 1
RECURSIVE RetryLoop(_, _, _, _, _, _)
RetryLoop(db_actions, campaign_id, prompt, service, content, attempt) ==
    LET kind == Generate(service, attempt)
        error == AttemptError(kind)
        saved == save_proposed_actions(db_actions, campaign_id, content)
    IN  IF attempt > max_retries
        THEN [calls |-> attempt - 1, rows |-> <<>>, error |-> "ValueError"]
        ELSE IF error = "ValueError"
        THEN RetryLoop(db_actions, campaign_id, prompt, service, content, attempt + 1)
        ELSE IF error # ""
        THEN [calls |-> attempt, rows |-> <<>>, error |-> error]
        ELSE [calls |-> attempt, rows |-> saved.rows, error |-> saved.error]

\* build_analysis_prompt: the text is a function of the snapshot and the alerts
build_analysis_prompt(campaign) ==
    [campaign_id |-> campaign.campaign_id, budget |-> campaign.budget,
     alerts |-> {i \in 1..Len(alerts) :
                    /\ alerts[i].campaign_id = campaign.campaign_id
                    /\ ~alerts[i].resolved}]

\* the f-string of analyzer.py:467 formats campaign.get('budget', 0) with
\* :.2f; to_dict (models.py:92) stores None for an unset or zero budget
PromptRaises(campaign) == ~Truthy(campaign.budget)

\* an analysis that goes on to the service without looking for a snapshot
AnalyzeWithoutSnapshot(db_actions, campaign_id, service, content) ==
    LET prompt == build_analysis_prompt(campaign_metrics[campaign_id])
        loop == RetryLoop(db_actions, campaign_id, prompt, service, content, 1)
    IN  [raised |-> FALSE, error |-> loop.error,
         calls |-> [i \in 1..loop.calls |->
                      [prompt |-> prompt, answer |-> Generate(service, i)]],
         rows |-> loop.rows]

\* CampaignAnalyzer.analyze_campaign: its result and the rows it saved.
\* raised: an exception left the method.
analyze_campaign(db_actions, campaign_id, service, content) ==
    LET campaign == campaign_metrics[campaign_id]
        prompt == build_analysis_prompt(campaign)
        loop == RetryLoop(db_actions, campaign_id, prompt, service, content, 1)
    IN  IF campaign = NoMetric
        THEN [raised |-> FALSE, error |-> "No metrics found", calls |-> <<>>,
              rows |-> <<>>]
        ELSE IF PromptRaises(campaign)
        THEN [raised |-> TRUE, error |-> "TypeError", calls |-> <<>>, rows |-> <<>>]
        ELSE [raised |-> FALSE, error |-> loop.error,
              calls |-> [i \in 1..loop.calls |->
                           [prompt |-> prompt, answer |-> Generate(service, i)]],
              rows |-> loop.rows]


AnalysisResponse(op, campaign_id, result) ==
    [Response(op, campaign_id, IF result.raised THEN -1 ELSE 0, result.error)
     EXCEPT !.gen_calls = result.calls, !.actions = Len(result.rows)]

AnalyzeCampaign(campaign_id, service, content) ==
    LET result == analyze_campaign(proposed_actions, campaign_id, service, content)
    IN  /\ Len(proposed_actions) + Len(result.rows) <= MaxActions
        /\ proposed_actions' = proposed_actions \o result.rows
        /\ response' = AnalysisResponse("analyze_campaign", campaign_id, result)
        /\ UNCHANGED <<action_logs, campaign_metrics, alerts, mutations, call>>

\* the campaigns analyze_all_campaigns selects: an unresolved alert exists
CampaignsWithAlerts ==
    {alerts[i].campaign_id : i \in {j \in 1..Len(alerts) : ~alerts[j].resolved}}

\* the loop of analyze_all_campaigns, analyzer.py:793-796: an exception of
\* analyze_campaign leaves the loop and the method
RECURSIVE AnalyzeLoop(_, _, _, _, _)
AnalyzeLoop(state, campaign_ids, i, service, content) ==
    IF i > Len(campaign_ids) \/ state.raised THEN state
    ELSE LET c == campaign_ids[i]
             result == analyze_campaign(state.proposed_actions, c, service[c], content[c])
         IN  AnalyzeLoop(
                 [proposed_actions |-> state.proposed_actions \o result.rows,
                  raised |-> result.raised,
                  calls |-> state.calls \o result.calls,
                  results |-> IF result.raised THEN state.results
                              ELSE Append(state.results,
                                   [campaign_id |-> c, error |-> result.error,
                                    actions |-> Len(result.rows)])],
                 campaign_ids, i + 1, service, content)

\* CampaignAnalyzer.analyze_all_campaigns.  campaign_ids: the DISTINCT query's
\* rows, in the order the database returned them.
analyze_all_campaigns(campaign_ids, service, content) ==
    LET end == AnalyzeLoop([proposed_actions |-> proposed_actions, raised |-> FALSE,
                            calls |-> <<>>, results |-> <<>>],
                           campaign_ids, 1, service, content)
    IN  /\ Len(end.proposed_actions) <= MaxActions
        /\ proposed_actions' = end.proposed_actions
        /\ response' =
              [Response("analyze_all", 0, IF end.raised THEN -1 ELSE 0,
                        IF end.raised THEN "TypeError" ELSE "")
               EXCEPT !.gen_calls = end.calls,
                      !.results = end.results,
                      !.actions = Len(end.proposed_actions) - Len(proposed_actions)]

Orders(S) ==
    {order \in [1..Cardinality(S) -> S] :
        \A i, j \in 1..Cardinality(S) : i # j => order[i] # order[j]}

AnalyzeAll(service, content) ==
    /\ \E campaign_ids \in Orders(CampaignsWithAlerts) :
          analyze_all_campaigns(campaign_ids, service, content)
    /\ UNCHANGED <<action_logs, campaign_metrics, alerts, mutations, call>>


(***************************************************************************)
(* Initial state: the tables as init_db creates them, empty.               *)
(***************************************************************************)
Idle == [fn |-> "", arg |-> 0, out |-> 0, again |-> 0, step |-> 0]

Tables ==
    /\ proposed_actions = <<>>
    /\ action_logs = <<>>
    /\ campaign_metrics = [c \in Campaigns |-> NoMetric]
    /\ alerts = <<>>
    /\ mutations = <<>>
    /\ response = Response("", 0, 0, "")

Init ==
    /\ Tables
    /\ call = Idle

(***************************************************************************)
(* Inputs.                                                                 *)
(***************************************************************************)
Number(value) == [kind |-> "number", value |-> value]
Missing == [kind |-> "missing", value |-> 0]
Null == [kind |-> "null", value |-> 0]

ActionData(action_type, priority, target, confidence) ==
    [action_type |-> action_type, priority |-> priority, target |-> target,
     confidence |-> confidence]

\* the service answers the first call with a parsable object
GoodService == [failures |-> 0, failing |-> "BAD_JSON", then |-> "GOOD"]

\* a campaign below the CTR target, with a budget
LowCtr(c) == Snapshot(c, "ENABLED", 100, 45, 200, 5, 7000, 5000, 1000)
\* the same campaign with no budget set
LowCtrNoBudget(c) == Snapshot(c, "ENABLED", 100, 45, 200, 5, 7000, None, 1000)
(***************************************************************************)
(* Spec: the life of a proposed action, from proposal to execution.        *)
(***************************************************************************)
LifecycleActions ==
    { ActionData("INCREASE_BUDGET", "HIGH", {"new_budget_micros"}, Number(85 * One)),
      ActionData("DECREASE_BUDGET", "LOW", {}, Number(85 * One)),
      ActionData("DECREASE_BID", "MEDIUM",
                 {"ad_group_id", "criterion_id", "new_bid_micros"}, Number(85 * One)) }

\* the platform outcomes the lifecycle needs: a success and a failure
LifecyclePlatform == PlatformOutcomes \ {"EXCEPTION", "BUDGET_NOT_FOUND"}

Next ==
    \/ MonitorRun([c \in Campaigns |-> LowCtr(c)])
    \/ \E c \in Campaigns, a \in LifecycleActions : AnalyzeCampaign(c, GoodService, <<a>>)
    \/ \E id \in 1..MaxActions : Approve(id)
    \/ \E id \in 1..MaxActions : Reject(id)
    \/ \E id \in 1..MaxActions, client_ok \in BOOLEAN, platform \in LifecyclePlatform :
          Apply(id, client_ok, platform)
    \/ \E id \in 1..MaxActions : Dismiss(id)
    \/ \E c \in {0} \cup Campaigns, dry_run \in BOOLEAN : ExecutePending(c, dry_run, LifecyclePlatform)

Spec == Init /\ [][Next]_vars

(***************************************************************************)
(* SpecPropose: the proposer against every kind of Text Generation         *)
(* service, on campaigns with and without a snapshot or a budget.          *)
(***************************************************************************)
MaxFailures == 3     \* leading unparsable answers of a service

\* the answers parse_ai_response turns into ValueError
Unparsable == {"BAD_JSON", "NO_ACTIONS"}

\* services that answer invalid JSON a number of times, then one kind for good
Services ==
    [failures : 0..MaxFailures, failing : {"BAD_JSON"}, then : GenerateKinds]

BudgetAction ==
    ActionData("INCREASE_BUDGET", "HIGH", {"new_budget_micros"}, Number(85 * One))

\* an action object without the action_type key
NoTypeAction == ActionData("", "HIGH", {"new_budget_micros"}, Number(85 * One))

AlwaysBad == [failures |-> MaxFailures, failing |-> "BAD_JSON", then |-> "BAD_JSON"]

NextPropose ==
    \/ \E c \in Campaigns : MonitorRun(<<LowCtr(c)>>)
    \/ \E c \in Campaigns : MonitorRun(<<LowCtrNoBudget(c)>>)
    \/ \E c \in Campaigns, service \in Services :
          AnalyzeCampaign(c, service, <<BudgetAction>>)
    \/ \E c \in Campaigns : AnalyzeCampaign(c, GoodService, <<NoTypeAction>>)
    \/ \E service \in [Campaigns -> {GoodService, AlwaysBad}] :
          AnalyzeAll(service, [c \in Campaigns |-> <<BudgetAction>>])

SpecPropose == Init /\ [][NextPropose]_vars

(***************************************************************************)
(* SpecConfidence: proposals over the confidence values a model may send.  *)
(***************************************************************************)
ConfidenceInputs ==
    { Number(8500), Number(85 * One), Number(One), Number(100 * One),
      Number(150 * One), Number(0), Number(-5 * One), Missing, Null }

NextConfidence ==
    \/ MonitorRun([c \in Campaigns |-> LowCtr(c)])
    \/ \E c \in Campaigns, confidence \in ConfidenceInputs :
          AnalyzeCampaign(c, GoodService,
              <<ActionData("INCREASE_BUDGET", "HIGH", {"new_budget_micros"}, confidence)>>)

SpecConfidence == Init /\ [][NextConfidence]_vars

(***************************************************************************)
(* SpecNormalize: the confidence normalisation applied once and twice to   *)
(* every two-decimal value from -MaxPercent/100 to MaxPercent.             *)
(***************************************************************************)
MaxPercent == 120

ConfidenceValues == {k * 100 : k \in (0 - MaxPercent)..(MaxPercent * 100)}

InitNormalize ==
    /\ Tables
    /\ call \in {[fn |-> "normalize", arg |-> c, out |-> 0, again |-> 0, step |-> 0] :
                    c \in ConfidenceValues}

Normalize ==
    /\ call.step = 0
    /\ call' = [call EXCEPT !.out = NormalizeConfidence(call.arg), !.step = 1]
    /\ UNCHANGED <<proposed_actions, action_logs, campaign_metrics, alerts, mutations, response>>

NormalizeAgain ==
    /\ call.step = 1
    /\ call' = [call EXCEPT !.again = NormalizeConfidence(call.out), !.step = 2]
    /\ UNCHANGED <<proposed_actions, action_logs, campaign_metrics, alerts, mutations, response>>

NextNormalize == Normalize \/ NormalizeAgain

SpecNormalize == InitNormalize /\ [][NextNormalize]_vars

(***************************************************************************)
(* SpecDispatch: execute_action applied to every action type, every set of *)
(* truthy target keys and every behaviour of the Ad Platform.              *)
(***************************************************************************)
\* the action types the specification enumerates
EnumeratedTypes ==
    {"INCREASE_BUDGET", "DECREASE_BUDGET", "INCREASE_BID", "DECREASE_BID",
     "REDUCE_BID", "PAUSE_AD", "PAUSE_KEYWORD", "ADD_NEGATIVE_KEYWORD"}

DispatchTypes == EnumeratedTypes \cup {"CHANGE_BUDGET", "OPTIMIZE_TARGETING"}

TargetKeys ==
    {"ad_group_id", "ad_id", "criterion_id", "keywords", "new_bid_micros",
     "new_budget_micros"}

InitDispatch ==
    /\ Tables
    /\ call \in {[fn |-> "execute_action",
                   arg |-> [action_type |-> t, target |-> target, platform |-> p],
                   out |-> Result("", "", "", FALSE), again |-> 0, step |-> 0] :
                    t \in DispatchTypes, target \in SUBSET TargetKeys,
                    p \in PlatformOutcomes}

Dispatch ==
    /\ call.fn = "execute_action"
    /\ call.step = 0
    /\ call' = [call EXCEPT !.out = execute_action(call.arg, call.arg.platform),
                            !.step = 1]
    /\ UNCHANGED <<proposed_actions, action_logs, campaign_metrics, alerts, mutations, response>>

NextDispatch == Dispatch

SpecDispatch == InitDispatch /\ [][NextDispatch]_vars

(***************************************************************************)
(* SpecExecute: proposals are approved and the batch executor runs, for    *)
(* real or dry, against every behaviour of the Ad Platform.                *)
(***************************************************************************)
NextExecute ==
    \/ MonitorRun([c \in Campaigns |-> LowCtr(c)])
    \/ \E c \in Campaigns, a \in LifecycleActions : AnalyzeCampaign(c, GoodService, <<a>>)
    \/ \E id \in 1..MaxActions : Approve(id)
    \/ \E c \in {0} \cup Campaigns, dry_run \in BOOLEAN :
          ExecutePending(c, dry_run, PlatformOutcomes)

SpecExecute == Init /\ [][NextExecute]_vars

(***************************************************************************)
(* SpecInterleave: apply_optimization commits the approval                 *)
(* (optimizations.py:113) before it executes, and the batch executor runs  *)
(* in another process: a batch run may fall between the two halves.  call  *)
(* holds the apply request in flight.                                      *)
(***************************************************************************)
\* optimizations.py:96-114: the guard and the committed approval
ApplyBegin(optimization_id) ==
    /\ call = Idle
    /\ Len(action_logs) < MaxLogs
    /\ IF Refusal(optimization_id) # 0
       THEN /\ response' = Response("apply", optimization_id, Refusal(optimization_id),
                                    RefusalDetail(Refusal(optimization_id)))
            /\ UNCHANGED <<proposed_actions, call>>
       ELSE /\ proposed_actions' = Approved(optimization_id)
            /\ call' = [Idle EXCEPT !.fn = "apply", !.arg = optimization_id, !.step = 1]
            /\ UNCHANGED response
    /\ UNCHANGED <<action_logs, campaign_metrics, alerts, mutations>>

\* optimizations.py:116-185: validation, execution and the final commit
ApplyFinish(client_ok, platform) ==
    /\ call.fn = "apply"
    /\ call.step = 1
    /\ LET id == call.arg
           action == proposed_actions[id]
           result == execute_action(action, platform)
       IN  IF MissingBudgetField(action)
           THEN /\ response' = Response("apply", id, 400,
                                        "Optimization missing required field")
                /\ UNCHANGED <<proposed_actions, action_logs, mutations>>
           ELSE IF ~client_ok
           THEN /\ ApplyExecutorError(id)
                /\ UNCHANGED mutations
           ELSE /\ mutations' = IF result.mutated THEN Append(mutations, id)
                                                  ELSE mutations
                /\ IF result.status = "SUCCESS"
                   THEN ApplySuccess(id, result)
                   ELSE ApplyFailure(id, result)
    /\ call' = Idle
    /\ UNCHANGED <<campaign_metrics, alerts>>

NextInterleave ==
    \/ MonitorRun([c \in Campaigns |-> LowCtr(c)])
    \/ \E c \in Campaigns, a \in LifecycleActions : AnalyzeCampaign(c, GoodService, <<a>>)
    \/ \E id \in 1..MaxActions : ApplyBegin(id)
    \/ \E client_ok \in BOOLEAN, platform \in LifecyclePlatform :
          ApplyFinish(client_ok, platform)
    \/ \E c \in {0} \cup Campaigns : ExecutePending(c, FALSE, LifecyclePlatform)

SpecInterleave == Init /\ [][NextInterleave]_vars

(***************************************************************************)
(* SpecCycle: the monitoring cycle of the two entry points, the standalone *)
(* scheduler (agents/scheduler.py) and the background job of the API       *)
(* server (api/main.py), next to the explicit approve and execute calls.   *)
(* call holds the cycle in progress: fn the entry point, arg the           *)
(* ANALYZER_AUTO_RUN setting (1 set, 0 unset), out the alerts_count that   *)
(* monitor.run returned.                                                   *)
(***************************************************************************)
Entries == {"scheduler", "api"}

\* a campaign within every target
Healthy(c) == Snapshot(c, "ENABLED", 300, 45, 200, 5, 7000, 5000, 1000)

\* whether the cycle goes on to analyzer.analyze_all_campaigns():
\* scheduler.py:61 tests the alerts of this run and the setting,
\* api/main.py:49-50 calls it unconditionally
RunsAnalyzer(entry, alerts_count, auto_run) ==
    IF entry = "scheduler" THEN alerts_count > 0 /\ auto_run = 1
    ELSE TRUE

\* first half of run_monitoring_cycle: monitor.run()
CycleMonitor(entry, auto_run, campaigns) ==
    /\ call = Idle
    /\ Len(alerts) + Len(detect_anomalies(campaigns)) <= MaxAlerts
    /\ run(campaigns)
    /\ call' = [Idle EXCEPT !.fn = entry, !.arg = auto_run,
                            !.out = Len(detect_anomalies(campaigns)), !.step = 1]
    /\ UNCHANGED <<proposed_actions, action_logs, mutations>>

\* a cycle whose second half runs the executor on the approved actions
CycleRunsExecutor(service, content) ==
    /\ call.fn \in Entries
    /\ call.step = 1
    /\ Len(action_logs) + Cardinality(PendingIds(0)) <= MaxLogs
    /\ \E actions \in get_pending_actions(0) :
       \E platform \in [PendingIds(0) -> {"SUCCESS"}] :
           execute_pending_actions(0, FALSE, actions, platform)
    /\ call' = Idle
    /\ UNCHANGED <<campaign_metrics, alerts>>

\* second half of run_monitoring_cycle: the analyzer, or the end of the cycle
CycleAnalyze(service, content) ==
    /\ call.fn \in Entries
    /\ call.step = 1
    /\ IF RunsAnalyzer(call.fn, call.out, call.arg)
       THEN \E campaign_ids \in Orders(CampaignsWithAlerts) :
               analyze_all_campaigns(campaign_ids, service, content)
       ELSE /\ response' = Response("cycle", 0, 0, "skip analisi")
            /\ UNCHANGED proposed_actions
    /\ call' = Idle
    /\ UNCHANGED <<action_logs, campaign_metrics, alerts, mutations>>

NextCycle ==
    \/ \E entry \in Entries, auto_run \in 0..1,
          campaigns \in {<<>>, <<LowCtr(1)>>, <<Healthy(1)>>, <<Healthy(1), LowCtr(2)>>} :
          CycleMonitor(entry, auto_run, campaigns)
    \/ \E service \in {GoodService, AlwaysBad} :
          CycleAnalyze([c \in Campaigns |-> service],
                       [c \in Campaigns |-> <<BudgetAction>>])
    \/ \E c \in Campaigns : AnalyzeCampaign(c, GoodService, <<BudgetAction>>)
    \/ \E id \in 1..MaxActions : Approve(id)
    \/ ExecutePending(0, FALSE, LifecyclePlatform)

SpecCycle == Init /\ [][NextCycle]_vars

(***************************************************************************)
(* SpecDetect: detect_anomalies on one snapshot, drawn from values on both *)
(* sides of every threshold.  budget is None or positive, as               *)
(* _parse_campaign_row builds it; optimization_score may be None or 0.     *)
(***************************************************************************)
DetectSnapshots ==
    { Snapshot(1, status, ctr, cpc, roas, conversions, optimization_score, budget, cost) :
        status \in {"ENABLED", "PAUSED"},
        ctr \in {100, 200, 300},
        cpc \in {45, 60, 75},
        roas \in {0, 100, 150, 200},
        conversions \in {0, 5},
        optimization_score \in {None, 0, 5000, 6000, 7000},
        budget \in {None, 1000, 5000},
        cost \in {0, 949, 950, 4750} }

InitDetect ==
    /\ Tables
    /\ call \in {[fn |-> "detect_anomalies", arg |-> campaign, out |-> <<>>,
                  again |-> 0, step |-> 0] : campaign \in DetectSnapshots}

Detect ==
    /\ call.fn = "detect_anomalies"
    /\ call.step = 0
    /\ call' = [call EXCEPT !.out = detect_anomalies(<<call.arg>>), !.step = 1]
    /\ UNCHANGED <<proposed_actions, action_logs, campaign_metrics, alerts,
                   mutations, response>>

NextDetect == Detect

SpecDetect == InitDetect /\ [][NextDetect]_vars

(***************************************************************************)
(* SpecTrend: the trend block of build_analysis_prompt, analyzer.py:390-   *)
(* 407, on a history as get_campaign_history returns it: newest first,     *)
(* every metric a number, 0 where the column is null or zero (to_dict).    *)
(* Metrics are in hundredths, changes in tenths of a percent, rounded      *)
(* down.                                                                   *)
(***************************************************************************)
MaxHistory == 7      \* history[6] is read only when there are 7 snapshots

Computed(value) == [raised |-> FALSE, value |-> value]
ZeroDivisionError == [raised |-> TRUE, value |-> 0]

\* Python's a / b * 100
Ratio(a, b) ==
    IF b = 0 THEN ZeroDivisionError ELSE Computed((a * 1000) \div b)

\* a change computed without looking at the prior value
PercentChangeUnguarded(latest, prior) == Ratio(latest - prior, prior)

\* ((latest - prior) / prior * 100) if prior > 0 else 0
PercentChange(latest, prior) ==
    IF prior > 0 THEN Ratio(latest - prior, prior) ELSE Computed(0)

Metrics(ctr, cpc, roas) == [ctr |-> ctr, cpc |-> cpc, roas |-> roas]

\* analyzer.py:390-392
Yesterday(history) == history[2]
WeekAgo(history) == IF Len(history) > 6 THEN history[7] ELSE history[Len(history)]

\* analyzer.py:388-402: the five percentage changes; none with a history of
\* fewer than two snapshots
trend_analysis(history) ==
    IF Len(history) >= 2
    THEN [daily_ctr_change |-> PercentChange(history[1].ctr, Yesterday(history).ctr),
          daily_roas_change |-> PercentChange(history[1].roas, Yesterday(history).roas),
          weekly_ctr_change |-> PercentChange(history[1].ctr, WeekAgo(history).ctr),
          weekly_cpc_change |-> PercentChange(history[1].cpc, WeekAgo(history).cpc),
          weekly_roas_change |-> PercentChange(history[1].roas, WeekAgo(history).roas)]
    ELSE [daily_ctr_change |-> Computed(0), daily_roas_change |-> Computed(0),
          weekly_ctr_change |-> Computed(0), weekly_cpc_change |-> Computed(0),
          weekly_roas_change |-> Computed(0)]

TrendValues == {0, 50, 100}
TrendMetrics == {Metrics(ctr, cpc, roas) : ctr \in TrendValues, cpc \in TrendValues,
                                           roas \in TrendValues}

\* histories of 1, 2, 3 and MaxHistory snapshots; the snapshots between
\* yesterday and the oldest are not read
Histories ==
    {<<latest>> : latest \in TrendMetrics}
    \cup {<<latest, yesterday>> : latest \in TrendMetrics, yesterday \in TrendMetrics}
    \cup {[i \in 1..n |-> IF i = 1 THEN latest
                          ELSE IF i = n THEN week_ago
                          ELSE yesterday] :
            n \in {3, MaxHistory}, latest \in TrendMetrics,
            yesterday \in TrendMetrics, week_ago \in TrendMetrics}

InitTrend ==
    /\ Tables
    /\ call \in {[fn |-> "trend_analysis", arg |-> history,
                  out |-> trend_analysis(<<>>), again |-> 0, step |-> 0] :
                 history \in Histories}

Trend ==
    /\ call.fn = "trend_analysis"
    /\ call.step = 0
    /\ call' = [call EXCEPT !.out = trend_analysis(call.arg), !.step = 1]
    /\ UNCHANGED <<proposed_actions, action_logs, campaign_metrics, alerts,
                   mutations, response>>

NextTrend == Trend

SpecTrend == InitTrend /\ [][NextTrend]_vars

(***************************************************************************)
(* SpecSchema: actions whose target follows the format the prompt of       *)
(* build_analysis_prompt prescribes for their type (analyzer.py:534-549),  *)
(* proposed, approved and executed by the batch executor on a platform     *)
(* that accepts every call.                                                *)
(***************************************************************************)
\* "TIPI DI AZIONI DISPONIBILI E FORMATO TARGET"
PromptedTargets(action_type) ==
    CASE action_type \in {"INCREASE_BUDGET", "DECREASE_BUDGET"} ->
            {{"new_budget_micros"}}
      [] action_type \in {"INCREASE_BID", "DECREASE_BID", "REDUCE_BID"} ->
            {{"keyword_id", "new_bid_micros", "current_bid_micros"}}
      [] action_type \in {"PAUSE_KEYWORD", "PAUSE_AD"} ->
            {{"keyword_id"}, {"ad_id"}}
      [] action_type = "ADD_NEGATIVE_KEYWORD" -> {{"keyword_text"}}
      [] OTHER -> {}

PromptedActions ==
    UNION {{ActionData(action_type, "HIGH", target, Number(85 * One)) :
               target \in PromptedTargets(action_type)} :
           action_type \in EnumeratedTypes}

NextSchema ==
    \/ MonitorRun(<<LowCtr(1)>>)
    \/ \E a \in PromptedActions : AnalyzeCampaign(1, GoodService, <<a>>)
    \/ \E id \in 1..MaxActions : Approve(id)
    \/ ExecutePending(0, FALSE, {"SUCCESS"})

SpecSchema == Init /\ [][NextSchema]_vars

(***************************************************************************)
(* Lifecycle properties, checked under Spec.                               *)
(***************************************************************************)
TerminalStatuses == {"EXECUTED", "APPLIED", "REJECTED", "DISMISSED", "FAILED"}

LogsOf(id) == {i \in 1..Len(action_logs) : action_logs[i].action_id = id}

\* C1: status monotonicity.  No step moves a ProposedAction whose status is
\* EXECUTED/APPLIED, REJECTED/DISMISSED or FAILED to any other status.
StatusMonotonicity ==
    [][\A id \in ActionIds :
          proposed_actions[id].status \in TerminalStatuses
             => proposed_actions'[id].status = proposed_actions[id].status]_vars

\* C2: approve and reject are guarded.  Invoked on an action that is not
\* PENDING they fail (no 200 answer) and leave the table unchanged.
ApproveRejectGuarded ==
    [][\A id \in ActionIds :
          /\ response'.op \in {"approve", "reject"}
          /\ response'.arg = id
          /\ proposed_actions[id].status # "PENDING"
          => /\ response'.code # 200
             /\ proposed_actions' = proposed_actions]_vars

FailedHasOneFailedLog ==
    \A id \in ActionIds :
        proposed_actions[id].status = "FAILED"
           => /\ Cardinality(LogsOf(id)) = 1
              /\ \A i \in LogsOf(id) : action_logs[i].status = "FAILED"

(***************************************************************************)
(* Proposer properties, checked under SpecPropose.                         *)
(***************************************************************************)
\* the last operation was analyze_campaign on a campaign whose snapshot
\* exists and whose prompt could be built
Generated(r) ==
    /\ r.op = "analyze_campaign"
    /\ campaign_metrics[r.arg] # NoMetric
    /\ ~PromptRaises(campaign_metrics[r.arg])

AllAnswers(r, kinds) ==
    \A i \in 1..Len(r.gen_calls) : r.gen_calls[i].answer \in kinds

ProviderErrorNotRetried ==
    response.op = "analyze_campaign"
       => \A i \in 1..Len(response.gen_calls) :
             response.gen_calls[i].answer \in {"PROVIDER_ERROR", "PROVIDER_VALUE_ERROR"}
                => /\ i = Len(response.gen_calls)
                   /\ response.detail # ""
                   /\ response.actions = 0

\* C7: analyze_campaign never raises, and analyze_all_campaigns returns one
\* result for every campaign that has an unresolved alert.
ProposeNeverRaises ==
    /\ response.op = "analyze_campaign" => response.code = 0
    /\ response.op = "analyze_all"
          => /\ response.code = 0
             /\ Len(response.results) = Cardinality(CampaignsWithAlerts)
             /\ {response.results[i].campaign_id : i \in 1..Len(response.results)}
                   = CampaignsWithAlerts

\* C8: without a snapshot analyze_campaign returns the "no data" error, makes
\* no generate call and saves no row.
NoSnapshotNoCall ==
    [][response'.op = "analyze_campaign" /\ campaign_metrics[response'.arg] = NoMetric
          => /\ response'.code = 0
             /\ response'.detail = "No metrics found"
             /\ response'.gen_calls = <<>>
             /\ response'.actions = 0
             /\ proposed_actions' = proposed_actions]_vars

NoSnapshotAnalyzed ==
    /\ response.op = "analyze_campaign"
    /\ campaign_metrics[response.arg] = NoMetric
    /\ response.detail = "No metrics found"
    /\ \E c \in Campaigns : campaign_metrics[c] # NoMetric

(***************************************************************************)
(* Confidence properties.                                                  *)
(***************************************************************************)
\* C9: every saved ProposedAction has a confidence between 0 and 1
\* (checked under SpecConfidence).
ConfidenceInUnitInterval ==
    \A id \in ActionIds :
        /\ proposed_actions[id].confidence >= 0
        /\ proposed_actions[id].confidence <= One

\* C10: normalize(c) is c/100 when c > 1 and c otherwise, and applying it
\* twice to a c between 0 and 100 gives what applying it once gives
\* (checked under SpecNormalize).
NormalizeLaw ==
    /\ call.step >= 1
          => IF call.arg > One THEN call.out * 100 = call.arg
                               ELSE call.out = call.arg
    /\ call.step = 2 /\ call.arg >= 0 /\ call.arg <= 100 * One
          => call.again = call.out

NormalizedTwice ==
    /\ call.step = 2
    /\ call.arg = 85 * One
    /\ call.out = 8500
    /\ call.again = 8500

(***************************************************************************)
(* Executor properties.                                                    *)
(***************************************************************************)
\* the target fields each kind of operation needs, as the specification of
\* the handlers states them
NeededFields(action_type) ==
    CASE action_type \in {"INCREASE_BUDGET", "DECREASE_BUDGET"} -> {"new_budget_micros"}
      [] action_type \in {"INCREASE_BID", "REDUCE_BID"} ->
            {"ad_group_id", "criterion_id", "new_bid_micros"}
      [] action_type = "PAUSE_KEYWORD" -> {"ad_group_id", "criterion_id"}
      [] action_type = "PAUSE_AD" -> {"ad_group_id", "ad_id"}
      [] action_type = "ADD_NEGATIVE_KEYWORD" -> {"keywords"}
      [] OTHER -> {}

\* C11: execution skip safety.  For each of the five handlers, an action
\* whose target lacks a field its type requires yields SKIPPED with a reason
\* and no call of the Ad Platform (checked under SpecDispatch).
SkipSafety ==
    /\ call.step = 1
    /\ \E key \in NeededFields(call.arg.action_type) : key \notin call.arg.target
    => /\ call.out.status = "SKIPPED"
       /\ call.out.reason # ""
       /\ ~call.out.mutated

SkippedBudgetChange ==
    /\ call.step = 1
    /\ call.arg.action_type = "INCREASE_BUDGET"
    /\ "new_budget_micros" \notin call.arg.target
    /\ call.arg.platform = "SUCCESS"
    /\ call.out.status = "SKIPPED"

\* C12: dispatch is exact.  An action reaches a handler if and only if its
\* type is one of the eight enumerated types; every other type yields
\* NOT_IMPLEMENTED without a call of the platform (checked under SpecDispatch).
DispatchExact ==
    call.step = 1
       => /\ call.arg.action_type \in EnumeratedTypes
                <=> call.out.status # "NOT_IMPLEMENTED"
          /\ call.out.status = "NOT_IMPLEMENTED" => ~call.out.mutated

\* the last operation was a batch run of the mode named by detail
BatchRun(r, detail) == r.op = "execute_pending" /\ r.detail = detail

\* the order the specification gives the priorities
PriorityRank(priority) ==
    CASE priority = "HIGH" -> 3
      [] priority = "MEDIUM" -> 2
      [] priority = "LOW" -> 1
      [] OTHER -> 0

\* C13: the batch is processed by priority descending (HIGH, MEDIUM, LOW)
\* and, within one priority, by creation time ascending (checked under
\* SpecExecute).
ProcessedByPriority ==
    response.op = "execute_pending"
       => \A i, j \in 1..Len(response.results) :
             i < j =>
                LET a == proposed_actions[response.results[i].action_id]
                    b == proposed_actions[response.results[j].action_id]
                IN  \/ PriorityRank(a.priority) > PriorityRank(b.priority)
                    \/ /\ PriorityRank(a.priority) = PriorityRank(b.priority)
                       /\ a.created_at <= b.created_at

DryRunFrame ==
    [][BatchRun(response', "DRY_RUN")
          => /\ mutations' = mutations
             /\ action_logs' = action_logs
             /\ proposed_actions' = proposed_actions]_vars

DryRunOfApproved ==
    /\ BatchRun(response, "DRY_RUN")
    /\ response.actions = 2
    /\ \A i \in 1..Len(response.results) :
          proposed_actions[response.results[i].action_id].status = "APPROVED"
    /\ \E i \in 1..Len(response.results) :
          LET a == proposed_actions[response.results[i].action_id]
          IN  a.action_type = "INCREASE_BUDGET"

\* C16: a dry batch run reports what would have happened: NOT_IMPLEMENTED
\* for a type that has no handler, SKIPPED for a target that lacks a
\* required field (checked under SpecExecute).
DryRunReportsOutcome ==
    BatchRun(response, "DRY_RUN")
       => \A i \in 1..Len(response.results) :
             LET a == proposed_actions[response.results[i].action_id]
                 would == execute_action(a, "SUCCESS")
             IN  would.status \in {"SKIPPED", "NOT_IMPLEMENTED"}
                    => response.results[i].status = would.status

CycleNeverExecutes ==
    [][ call' # call =>
          /\ mutations' = mutations
          /\ action_logs' = action_logs
          /\ \A id \in ActionIds :
                proposed_actions'[id].status = proposed_actions[id].status ]_vars

\* a cycle has just run to its end while an action was waiting APPROVED
CycleOverApproved ==
    /\ call = Idle
    /\ response.op \in {"analyze_all", "cycle"}
    /\ \E id \in ActionIds : proposed_actions[id].status = "APPROVED"
    /\ action_logs = <<>>

\* C20: a monitoring cycle runs the proposer only if its detection step
\* produced at least one alert and the auto-run flag is set; otherwise the
\* cycle ends with no generate call and no new ProposedAction, whichever the
\* entry point.
CycleGate ==
    [][ (/\ call.fn \in Entries
         /\ call' = Idle
         /\ ~(call.out > 0 /\ call.arg = 1))
        => /\ response'.gen_calls = <<>>
           /\ proposed_actions' = proposed_actions ]_vars

(***************************************************************************)
(* Properties of the endpoints' effects on the rows, checked under Spec.   *)
(***************************************************************************)
\* C21: apply performs approve, execute and log in one call.  Whenever apply
\* is invoked on a PENDING action and returns, with success or an error, the
\* action is APPLIED, EXECUTED or FAILED and exactly one ActionLog row for
\* it has been written.
ApplyCompletes ==
    [][ \A id \in ActionIds :
          (/\ response'.op = "apply"
           /\ response'.arg = id
           /\ proposed_actions[id].status = "PENDING")
          => /\ proposed_actions'[id].status \in {"APPLIED", "EXECUTED", "FAILED"}
             /\ Cardinality({i \in 1..Len(action_logs') :
                                action_logs'[i].action_id = id}) = 1 ]_vars

\* C22: dismiss is equivalent to reject.  On a PENDING action both leave the
\* status REJECTED; on any other action both refuse and change nothing.
DismissLikeReject ==
    [][ \A id \in ActionIds :
          (response'.op \in {"dismiss", "reject"} /\ response'.arg = id)
          => IF proposed_actions[id].status = "PENDING"
             THEN proposed_actions'[id].status = "REJECTED"
             ELSE /\ proposed_actions' = proposed_actions
                  /\ response'.code # 200 ]_vars

\* C23: decision metadata is recorded on the action.  After a successful
\* approve (the approve endpoint, or the approval of apply) the row carries
\* an approver identity and an approval timestamp; after a successful reject
\* the row carries the reason, so it differs from the old row in more than
\* its status.
DecisionRecorded ==
    [][ \A id \in ActionIds :
          /\ (/\ response'.arg = id
              /\ \/ response'.op = "approve" /\ response'.code = 200
                 \/ response'.op = "apply" /\ proposed_actions[id].status = "PENDING")
             => /\ proposed_actions'[id].approved_at
                /\ proposed_actions'[id].approved_by # ""
          /\ (response'.op = "reject" /\ response'.code = 200 /\ response'.arg = id)
             => proposed_actions'[id] #
                   [proposed_actions[id] EXCEPT !.status = "REJECTED"] ]_vars

\* C24: every execution failure is attached to its records.  Every ActionLog
\* of a non-SUCCESS attempt has an error_message, and while its action is
\* FAILED the action has an execution_error.
FailureAttached ==
    \A i \in 1..Len(action_logs) :
        action_logs[i].status # "SUCCESS"
        => /\ action_logs[i].error_message # ""
           /\ proposed_actions[action_logs[i].action_id].status = "FAILED"
              => proposed_actions[action_logs[i].action_id].execution_error # ""

(***************************************************************************)
(* Properties of detect_anomalies, checked under SpecDetect.               *)
(***************************************************************************)
AlertKinds(out) == {out[i].alert_type : i \in 1..Len(out)}

\* C25: for every snapshot with conversions = 0, detect produces no LOW_ROAS
\* alert, whatever the ROAS value.
NoRoasAlertWithoutConversions ==
    (call.step = 1 /\ call.arg.conversions = 0)
    => "LOW_ROAS" \notin AlertKinds(call.out)

\* an enabled campaign with no conversions and a ROAS below the target
DetectedZeroConversions ==
    /\ call.step = 1
    /\ call.arg.status = "ENABLED"
    /\ call.arg.conversions = 0
    /\ call.arg.roas < TARGET_ROAS_MIN

\* C26: for every snapshot whose budget is unset (null), detect produces no
\* BUDGET_EXHAUSTED alert, whatever the cost.
NoBudgetAlertWithoutBudget ==
    (call.step = 1 /\ call.arg.budget = None)
    => "BUDGET_EXHAUSTED" \notin AlertKinds(call.out)

\* an enabled campaign with a cost and no budget
DetectedWithoutBudget ==
    /\ call.step = 1
    /\ call.arg.status = "ENABLED"
    /\ call.arg.budget = None
    /\ call.arg.cost > 0

\* the alerts C27 prescribes for an enabled campaign: a score is present
\* unless it is None, a budget is set unless it is None
PrescribedAlerts(campaign) ==
    {Alert(campaign.campaign_id, "LOW_CTR", "MEDIUM") : x \in
        {y \in {1} : campaign.ctr < TARGET_CTR_MIN}}
    \cup {Alert(campaign.campaign_id, "HIGH_CPC", "MEDIUM") : x \in
        {y \in {1} : campaign.cpc > TARGET_CPC_MAX}}
    \cup {Alert(campaign.campaign_id, "LOW_ROAS", "HIGH") : x \in
        {y \in {1} : campaign.conversions > 0 /\ campaign.roas < TARGET_ROAS_MIN}}
    \cup {Alert(campaign.campaign_id, "LOW_OPTIMIZATION_SCORE", "LOW") : x \in
        {y \in {1} : /\ campaign.optimization_score # None
                     /\ campaign.optimization_score < TARGET_OPTIMIZATION_SCORE_MIN}}
    \cup {Alert(campaign.campaign_id, "BUDGET_EXHAUSTED", "HIGH") : x \in
        {y \in {1} : /\ campaign.budget # None
                     /\ campaign.cost * 100 >= campaign.budget * 95}}

\* C27: for every ENABLED campaign detect emits exactly the alerts whose
\* rule fires, at most one per kind; a present score of 0 is below scoreMin.
DetectExact ==
    (call.step = 1 /\ call.arg.status = "ENABLED")
    => /\ {call.out[i] : i \in 1..Len(call.out)} = PrescribedAlerts(call.arg)
       /\ Len(call.out) = Cardinality(PrescribedAlerts(call.arg))

(***************************************************************************)
(* Property of the trend block, checked under SpecTrend.                   *)
(***************************************************************************)
\* C28: divide-by-zero guard.  Every day-over-day and week-over-week
\* percentage change of the trend block is 0 when the prior value is 0, and
\* none raises; a CPC of 0 a week ago and 0.50 today give a change of 0.
ZeroPriorZeroChange ==
    (call.step = 1 /\ Len(call.arg) >= 2)
    => LET history == call.arg
           out == call.out
       IN  /\ \A change \in DOMAIN out : ~out[change].raised
           /\ Yesterday(history).ctr = 0 => out.daily_ctr_change.value = 0
           /\ Yesterday(history).roas = 0 => out.daily_roas_change.value = 0
           /\ WeekAgo(history).ctr = 0 => out.weekly_ctr_change.value = 0
           /\ WeekAgo(history).cpc = 0 => out.weekly_cpc_change.value = 0
           /\ WeekAgo(history).roas = 0 => out.weekly_roas_change.value = 0

\* the scenario: seven snapshots, CPC 0 a week ago, 0.50 today
ZeroCpcWeekAgo ==
    /\ call.step = 1
    /\ call.fn = "trend_analysis"
    /\ Len(call.arg) = MaxHistory
    /\ WeekAgo(call.arg).cpc = 0
    /\ call.arg[1].cpc = 50
    /\ call.out.weekly_cpc_change = Computed(0)

(***************************************************************************)
(* Property of the retry loop's successful end, checked under SpecPropose. *)
(***************************************************************************)
\* C29: if the first parsable answer arrives on attempt k (1 <= k <= 3) after
\* k-1 unparsable ones, analyze_campaign makes exactly k generate calls,
\* saves the actions of that answer once, each PENDING, and returns them
\* with no error; the failed attempts save nothing.
ParsedOnAttemptK ==
    [][ \A k \in 1..max_retries :
          (/\ Generated(response')
           /\ Len(response'.gen_calls) >= k
           /\ response'.gen_calls[k].answer = "GOOD"
           /\ \A i \in 1..(k - 1) : response'.gen_calls[i].answer \in Unparsable)
          => /\ Len(response'.gen_calls) = k
             /\ response'.code = 0
             /\ response'.detail = ""
             /\ response'.actions >= 1
             /\ Len(proposed_actions') = Len(proposed_actions) + response'.actions
             /\ \A id \in 1..Len(proposed_actions') :
                   IF id <= Len(proposed_actions)
                   THEN proposed_actions'[id] = proposed_actions[id]
                   ELSE proposed_actions'[id].status = "PENDING" ]_vars

(***************************************************************************)
(* Agreement of proposer and executor, checked under SpecSchema.           *)
(***************************************************************************)
\* C30: proposer and executor agree on the target schema.  An approved
\* action whose target follows the format the prompt prescribes for its type
\* passes its handler's required-field check: no batch run reports it
\* SKIPPED.
PromptedNeverSkipped ==
    response.op = "execute_pending"
    => \A i \in 1..Len(response.results) : response.results[i].status # "SKIPPED"

=============================================================================
